---- MODULE Spec2Model ----
(***************************************************************************)
(* Model of pages/14_Users.py: the MySQL user and privilege administration *)
(* page.  A run of the page script lists the users, then runs the handler  *)
(* of the one button that was pressed.  Handlers build statement text from *)
(* sanitized identifiers and hand it to exec_admin (or get_grants), which  *)
(* acquires a connection, executes, commits or rolls back, and closes.     *)
(*                                                                         *)
(* Strings are sequences of one-character strings.  A Python Optional[str] *)
(* is a sequence: << >> is None and <<t>> is the string t.                 *)
(***************************************************************************)
EXTENDS Integers, Sequences, FiniteSets, TLC

VARIABLES
    pc,         \* position of the running script
    op,         \* the handler of this run
    fn,         \* the executor in progress: exec_admin or get_grants
    stmt,       \* the statement the executor in progress was given
    inp,        \* the operator's inputs and the handler's sanitized u, h
    users,      \* store: the committed principal catalog (mysql.user)
    grants,     \* store: the committed privileges, <<principal, token>>
    conns,      \* the connections acquired in this run
    calls,      \* the executor calls of this run, in order
    exc,        \* the exception caught inside the executor, if any
    escaping,   \* an exception is propagating out of the executor
    ret,        \* err, as returned by the last exec_admin
    rows,       \* rows fetched by get_grants
    gdf,        \* the frame returned by get_grants
    ui,         \* what the page has shown in this run
    raised,     \* an exception left the script unhandled
    users_df,   \* the frame returned by list_users
    listFailed, \* a list_users of this run caught an exception
    users0,     \* the catalog when this run began
    grants0,    \* the privileges when this run began
    nruns,      \* script runs so far
    sIn, sUser, sHost, sanPc   \* the sanitizer on its own

vars == <<pc, op, fn, stmt, inp, users, grants, conns, calls, exc, escaping,
          ret, rows, gdf, ui, raised, users_df, listFailed, users0, grants0,
          nruns, sIn, sUser, sHost, sanPc>>
pageVars == <<pc, op, fn, stmt, inp, users, grants, conns, calls, exc,
              escaping, ret, rows, gdf, ui, raised, users_df, listFailed,
              users0, grants0, nruns>>
sanVars == <<sIn, sUser, sHost, sanPc>>

\* ---------------------------------------------------------------- bounds
MaxLen == 3
MaxRuns == 1

\* ------------------------------------------------------------ characters
\* Representatives of the character classes of the regular expressions.
\* "BQ" stands for the backquote character, which quotes an identifier.
Lower == {"a", "z"}
Upper == {"A", "Z"}
Digit == {"0", "9"}
HostPunct == {"%", ".", ":", "-"}
OtherChars == {"'", "BQ", ";", " "}
Chars == Lower \cup Upper \cup Digit \cup {"_"} \cup HostPunct \cup OtherChars

Strings(S, n) == UNION {[1..k -> S] : k \in 0..n}

\* re.sub(r"[^a-zA-Z0-9_]", "", s): the characters the pattern does not match
UserKept_AlsoPercent(c) == c \in Lower \cup Upper \cup Digit \cup {"_", "%", "'"}
UserKept(c) == c \in Lower \cup Upper \cup Digit \cup {"_"}
\* re.sub(r"[^a-zA-Z0-9_%.:-]", "", s)
HostKept(c) == c \in Lower \cup Upper \cup Digit \cup {"_"} \cup {"%", ".", ":", "-"}

sanitize_user(s) == SelectSeq(s, UserKept)
sanitize_host(s) == SelectSeq(s, HostKept)

\* ------------------------------------------------- the sanitizer on its own
SanInit ==
    /\ sIn \in Strings(Chars, MaxLen)
    /\ sUser = << >> /\ sHost = << >> /\ sanPc = "input"

ApplySanitizeUser ==
    /\ sanPc = "input"
    /\ sUser' = sanitize_user(sIn)
    /\ sanPc' = "user"
    /\ UNCHANGED <<sIn, sHost>>
    /\ UNCHANGED pageVars

ApplySanitizeHost ==
    /\ sanPc = "user"
    /\ sHost' = sanitize_host(sIn)
    /\ sanPc' = "done"
    /\ UNCHANGED <<sIn, sUser>>
    /\ UNCHANGED pageVars

\* ------------------------------------------------------------ page inputs
\* What the operator types into a User or Host field: nothing, a plain
\* name, the wildcard, a lone quote, and a name that closes the quoting.
Raw == {<< >>, <<"a">>, <<"%">>, <<"'">>, <<"a", "'">>}
Presets == {"Read-only", "Read/Write", "Admin", "None"}
Actions == {"GRANT", "REVOKE"}
Privileges == {"SELECT", "INSERT"}
\* str(e) of the exceptions a store or connection fault can raise
ErrTexts == {"", "denied"}
Faults == {<<e>> : e \in ErrTexts}
None == << >>

\* x or "%"
OrPercent(x) == IF x = << >> THEN <<"%">> ELSE x

\* if err:
Truthy(e) == e \notin {None, <<"">>}

Stmt(kind, u, h, pv) == [kind |-> kind, user |-> u, host |-> h, privs |-> pv]
NoStmt == Stmt("", << >>, << >>, {})
Principal(s) == <<s.user, s.host>>
Mutating == {"CREATE USER", "ALTER USER", "GRANT", "REVOKE", "DROP USER"}
Flush == Stmt("FLUSH PRIVILEGES", << >>, << >>, {})

PresetPrivs(ps) ==
    CASE ps = "Read-only" -> {"SELECT"}
      [] ps = "Read/Write" -> {"SELECT", "INSERT", "UPDATE", "DELETE", "EXECUTE"}
      [] ps = "Admin" -> {"ALL PRIVILEGES"}
      [] OTHER -> {}

Msg(level, text, e) == [level |-> level, text |-> text, err |-> e]

\* ------------------------------------------------------------- the store
RootPrincipal == <<<<"a">>, <<"%">>>>

\* The error the store answers a statement with, None when it accepts it.
StoreError(s) ==
    CASE s.kind = "CREATE USER" ->
            IF Principal(s) \in users THEN <<"exists">> ELSE None
      [] s.kind \in {"ALTER USER", "GRANT", "REVOKE", "DROP USER", "SHOW GRANTS"} ->
            IF Principal(s) \in users THEN None ELSE <<"unknown user">>
      [] OTHER -> None

EffectUsers(s) ==
    CASE s.kind = "CREATE USER" -> users \cup {Principal(s)}
      [] s.kind = "DROP USER" -> users \ {Principal(s)}
      [] OTHER -> users

EffectGrants(s) ==
    CASE s.kind = "GRANT" -> grants \cup {<<Principal(s), t>> : t \in s.privs}
      [] s.kind = "REVOKE" -> grants \ {<<Principal(s), t>> : t \in s.privs}
      [] s.kind = "DROP USER" -> {g \in grants : g[1] # Principal(s)}
      [] OTHER -> grants

GrantRows(s) == {"USAGE"} \cup {g[2] : g \in {x \in grants : x[1] = Principal(s)}}

\* get_connection(): a fresh connection for the call numbered n
NewConn(n) == [owner |-> n, open |-> TRUE, closes |-> 0, misuse |-> FALSE]

\* a cursor, commit or rollback of call n on connection c
UseConn(c, n) == [c EXCEPT !.misuse = @ \/ ~c.open \/ c.owner # n]

\* conn.close()
close_forgotten(c) == c
close(c) == [c EXCEPT !.open = FALSE, !.closes = @ + 1]

NewCall(f, s, c) ==
    [fn |-> f, stmt |-> s, conn |-> c, sent |-> FALSE, res |-> "called",
     err |-> None, returned |-> FALSE, ret |-> None]

\* ------------------------------------------------------- the top of a run
ListOutcomes == {None} \cup Faults

\* list_users(): the frame, given the outcome of run_query
list_users(lr) == IF lr = None THEN users ELSE {}

ListWarning(lr) ==
    IF lr = None THEN << >> ELSE <<Msg("warning", "Could not list users", lr)>>

PageTop(lr) ==
    ListWarning(lr) \o
    (IF list_users(lr) = {} THEN <<Msg("info", "No users listed", None)>>
     ELSE <<Msg("dataframe", "users", None)>>)

Input(u, h, pw, ps, act, pv) ==
    [u |-> u, h |-> h, pw |-> pw, preset |-> ps, action |-> act, privs |-> pv]

StartRun(o, in, lr) ==
    /\ pc = "idle"
    /\ nruns < MaxRuns
    /\ nruns' = nruns + 1
    /\ op' = o
    /\ inp' = in
    /\ users_df' = list_users(lr)
    /\ listFailed' = (lr # None)
    /\ conns' = << >>
    /\ calls' = << >>
    /\ raised' = FALSE
    /\ exc' = None
    /\ escaping' = FALSE
    /\ ret' = None
    /\ rows' = {}
    /\ gdf' = {}
    /\ users0' = users
    /\ grants0' = grants
    /\ UNCHANGED <<users, grants>>
    /\ UNCHANGED sanVars

Call(f, s) == pc' = "acquire" /\ fn' = f /\ stmt' = s
Rejected(top, text) ==
    /\ ui' = top \o <<Msg("error", text, None)>>
    /\ pc' = "done"
    /\ UNCHANGED <<fn, stmt>>

\* ------------------------------------------------------------- handlers
ShowGrantsClick ==
    \E ru \in Raw, rh \in Raw :
        /\ users # {}
        /\ StartRun("ShowGrants", Input(ru, rh, FALSE, "None", "", {}), None)
        /\ ui' = PageTop(None)
        /\ IF ru # << >> /\ rh # << >>
           THEN Call("get_grants", Stmt("SHOW GRANTS", ru, rh, {}))
           ELSE pc' = "done" /\ UNCHANGED <<fn, stmt>>

CreateUserSubmit ==
    \E ru \in Raw, rh \in Raw, pw \in BOOLEAN, ps \in Presets, lr \in ListOutcomes :
        LET u == sanitize_user(ru)
            h == sanitize_host(OrPercent(rh))
        IN  /\ StartRun("CreateUser", Input(u, h, pw, ps, "", {}), lr)
            /\ IF u = << >> \/ ~pw
               THEN Rejected(PageTop(lr), "Username and password are required.")
               ELSE /\ ui' = PageTop(lr)
                    /\ Call("exec_admin", Stmt("CREATE USER", u, h, {}))

UpdatePasswordClick ==
    \E ru \in Raw, rh \in Raw, pw \in BOOLEAN, lr \in ListOutcomes :
        LET u == sanitize_user(ru)
            h == sanitize_host(OrPercent(rh))
        IN  /\ StartRun("ChangePassword", Input(u, h, pw, "None", "", {}), lr)
            /\ IF u = << >> \/ ~pw
               THEN Rejected(PageTop(lr), "User and new password are required.")
               ELSE /\ ui' = PageTop(lr)
                    /\ Call("exec_admin", Stmt("ALTER USER", u, h, {}))

GrantRevokeClick ==
    \E ru \in Raw, rh \in Raw, act \in Actions, pv \in SUBSET Privileges,
       lr \in ListOutcomes :
        LET u == sanitize_user(ru)
            h == sanitize_host(OrPercent(rh))
        IN  /\ StartRun("GrantRevoke", Input(u, h, FALSE, "None", act, pv), lr)
            /\ IF u = << >> \/ pv = {}
               THEN Rejected(PageTop(lr), "User and at least one privilege are required.")
               ELSE /\ ui' = PageTop(lr)
                    /\ Call("exec_admin", Stmt(act, u, h, pv))

DropUserClick ==
    \E ru \in Raw, rh \in Raw, lr \in ListOutcomes :
        LET u == sanitize_user(ru)
            h == sanitize_host(OrPercent(rh))
        IN  /\ StartRun("DropUser", Input(u, h, FALSE, "None", "", {}), lr)
            /\ IF u = << >>
               THEN Rejected(PageTop(lr), "User is required.")
               ELSE /\ ui' = PageTop(lr)
                    /\ Call("exec_admin", Stmt("DROP USER", u, h, {}))

\* ------------------------------------------- exec_admin and get_grants
cur == Len(calls)
curConn == calls[cur].conn

\* conn = get_connection(), outside the try block
GetConnection ==
    /\ pc = "acquire"
    /\ \E ok \in BOOLEAN :
        IF ok
        THEN /\ conns' = Append(conns, NewConn(cur + 1))
             /\ calls' = Append(calls, NewCall(fn, stmt, Len(conns) + 1))
             /\ pc' = "execute"
             /\ UNCHANGED raised
        ELSE /\ calls' = Append(calls, [NewCall(fn, stmt, 0) EXCEPT !.res = "no connection"])
             /\ raised' = TRUE
             /\ pc' = "done"
             /\ UNCHANGED conns
    /\ UNCHANGED <<op, fn, stmt, inp, users, grants, exc, escaping, ret, rows, gdf,
                   ui, users_df, listFailed, users0, grants0, nruns>>
    /\ UNCHANGED sanVars

\* except Exception as e: the handler of each executor
OnException(e) ==
    /\ exc' = e
    /\ IF fn = "exec_admin"
       THEN pc' = "rollback" /\ UNCHANGED <<ui, gdf>>
       ELSE /\ ui' = Append(ui, Msg("warning", "Could not fetch grants", e))
            /\ gdf' = {}
            /\ pc' = "close"

ExecOutcomes(s) == (IF StoreError(s) = None THEN {None} ELSE {StoreError(s)}) \cup Faults

\* cur.execute(sql, params), and cur.fetchall() in get_grants
Execute ==
    /\ pc = "execute"
    /\ conns' = [conns EXCEPT ![curConn] = UseConn(@, cur)]
    /\ \E o \in ExecOutcomes(stmt) :
        IF o = None
        THEN /\ calls' = [calls EXCEPT ![cur].sent = TRUE, ![cur].res = "executed"]
             /\ rows' = IF fn = "get_grants" THEN GrantRows(stmt) ELSE rows
             /\ pc' = "commit"
             /\ UNCHANGED <<exc, ui, gdf>>
        ELSE /\ calls' = [calls EXCEPT ![cur].sent = TRUE, ![cur].res = "execute failed",
                                       ![cur].err = o]
             /\ OnException(o)
             /\ UNCHANGED rows
    /\ UNCHANGED <<op, fn, stmt, inp, users, grants, escaping, ret, raised,
                   users_df, listFailed, users0, grants0, nruns>>
    /\ UNCHANGED sanVars

\* conn.commit(); then return rows, None or the frame of grants
Commit ==
    /\ pc = "commit"
    /\ conns' = [conns EXCEPT ![curConn] = UseConn(@, cur)]
    /\ \E o \in {None} \cup Faults :
        IF o = None
        THEN /\ users' = EffectUsers(stmt)
             /\ grants' = EffectGrants(stmt)
             /\ calls' = [calls EXCEPT ![cur].res = "committed"]
             /\ ret' = None
             /\ gdf' = IF fn = "get_grants" THEN rows ELSE gdf
             /\ pc' = "close"
             /\ UNCHANGED <<exc, ui>>
        ELSE /\ calls' = [calls EXCEPT ![cur].res = "commit failed", ![cur].err = o]
             /\ OnException(o)
             /\ UNCHANGED <<users, grants, ret>>
    /\ UNCHANGED <<op, fn, stmt, inp, escaping, rows, raised, users_df,
                   listFailed, users0, grants0, nruns>>
    /\ UNCHANGED sanVars

\* conn.rollback(); return None, str(e)
Rollback ==
    /\ pc = "rollback"
    /\ conns' = [conns EXCEPT ![curConn] = UseConn(@, cur)]
    /\ \E ok \in BOOLEAN :
        IF ok
        THEN ret' = exc /\ UNCHANGED escaping
        ELSE escaping' = TRUE /\ UNCHANGED ret
    /\ pc' = "close"
    /\ UNCHANGED <<op, fn, stmt, inp, users, grants, calls, exc, rows, gdf, ui,
                   raised, users_df, listFailed, users0, grants0, nruns>>
    /\ UNCHANGED sanVars

\* finally: conn.close()
Close ==
    /\ pc = "close"
    /\ conns' = [conns EXCEPT ![curConn] = close(@)]
    /\ \E ok \in BOOLEAN :
        IF ok /\ ~escaping
        THEN /\ calls' = [calls EXCEPT ![cur].returned = TRUE, ![cur].ret = ret]
             /\ pc' = "return"
             /\ UNCHANGED raised
        ELSE /\ raised' = TRUE
             /\ pc' = "done"
             /\ UNCHANGED calls
    /\ escaping' = FALSE
    /\ UNCHANGED <<op, fn, stmt, inp, users, grants, exc, ret, rows, gdf, ui,
                   users_df, listFailed, users0, grants0, nruns>>
    /\ UNCHANGED sanVars

\* ------------------------------------------- the handlers, after a call
\* What a handler does with the err of its call for a statement of `kind`:
\* report the failure, apply the preset, flush, or report success.
NextStep_FlushAlways(o, kind, err, ps) ==
    CASE kind = "FLUSH PRIVILEGES" -> "finish"
      [] kind = "CREATE USER" /\ Truthy(err) -> "fail"
      [] kind = "CREATE USER" /\ ps # "None" -> "preset"
      [] OTHER -> "flush"
NextStep_NoFlush(o, kind, err, ps) ==
    CASE kind = "FLUSH PRIVILEGES" -> "finish"
      [] Truthy(err) -> "fail"
      [] o = "CreateUser" /\ kind = "CREATE USER" /\ ps # "None" -> "preset"
      [] o = "DropUser" -> "finish"
      [] OTHER -> "flush"
NextStep_Continue(o, kind, err, ps) ==
    CASE kind = "FLUSH PRIVILEGES" -> "finish"
      [] o = "CreateUser" /\ kind = "CREATE USER" /\ ps # "None" -> "preset"
      [] Truthy(err) -> "fail"
      [] OTHER -> "flush"
NextStep(o, kind, err, ps) ==
    CASE kind = "FLUSH PRIVILEGES" -> "finish"
      [] Truthy(err) -> "fail"
      [] o = "CreateUser" /\ kind = "CREATE USER" /\ ps # "None" -> "preset"
      [] OTHER -> "flush"

FailText(o, kind) ==
    CASE o = "CreateUser" /\ kind = "GRANT" -> "Grant failed"
      [] OTHER -> kind \o " failed"

DoneText(o) ==
    CASE o = "CreateUser" -> "Preset applied"
      [] o = "ChangePassword" -> "Password updated"
      [] o = "GrantRevoke" -> inp.action \o " successful"
      [] OTHER -> "User dropped"

step == NextStep(op, stmt.kind, ret, inp.preset)

Finish == pc' = "done" /\ UNCHANGED <<fn, stmt>>

contUnchanged == <<op, inp, users, grants, conns, calls, exc, escaping, ret, rows,
                   gdf, raised, users0, grants0, nruns>>

CreateUserCont ==
    /\ pc = "return" /\ op = "CreateUser"
    /\ \E lr \in ListOutcomes :
        CASE step = "fail" ->
                /\ ui' = Append(ui, Msg("error", FailText(op, stmt.kind), ret))
                /\ Finish
                /\ UNCHANGED <<users_df, listFailed>>
          [] step = "preset" ->
                /\ ui' = Append(ui, Msg("success", "User created", None))
                /\ Call("exec_admin", Stmt("GRANT", inp.u, inp.h, PresetPrivs(inp.preset)))
                /\ UNCHANGED <<users_df, listFailed>>
          [] step = "flush" ->
                /\ ui' = IF stmt.kind = "CREATE USER"
                         THEN Append(ui, Msg("success", "User created", None))
                         ELSE ui
                /\ Call("exec_admin", Flush)
                /\ UNCHANGED <<users_df, listFailed>>
          [] OTHER ->
                /\ ui' = Append(ui, Msg("success", DoneText(op), None)) \o ListWarning(lr)
                /\ users_df' = list_users(lr)
                /\ listFailed' = (listFailed \/ lr # None)
                /\ Finish
    /\ UNCHANGED contUnchanged
    /\ UNCHANGED sanVars

\* Update Password, and Grant / Revoke Selected Privileges
SimpleCont ==
    /\ pc = "return" /\ op \in {"ChangePassword", "GrantRevoke"}
    /\ CASE step = "fail" ->
                /\ ui' = Append(ui, Msg("error", FailText(op, stmt.kind), ret))
                /\ Finish
         [] step = "flush" ->
                /\ Call("exec_admin", Flush)
                /\ UNCHANGED ui
         [] OTHER ->
                /\ ui' = Append(ui, Msg("success", DoneText(op), None))
                /\ Finish
    /\ UNCHANGED <<users_df, listFailed>>
    /\ UNCHANGED contUnchanged
    /\ UNCHANGED sanVars

DropUserCont ==
    /\ pc = "return" /\ op = "DropUser"
    /\ \E lr \in ListOutcomes :
        CASE step = "fail" ->
                /\ ui' = Append(ui, Msg("error", FailText(op, stmt.kind), ret))
                /\ Finish
                /\ UNCHANGED <<users_df, listFailed>>
          [] step = "flush" ->
                /\ Call("exec_admin", Flush)
                /\ UNCHANGED <<ui, users_df, listFailed>>
          [] OTHER ->
                /\ ui' = Append(ui, Msg("success", DoneText(op), None)) \o ListWarning(lr)
                /\ users_df' = list_users(lr)
                /\ listFailed' = (listFailed \/ lr # None)
                /\ Finish
    /\ UNCHANGED contUnchanged
    /\ UNCHANGED sanVars

ShowGrantsCont ==
    /\ pc = "return" /\ op = "ShowGrants"
    /\ ui' = Append(ui, IF gdf = {} THEN Msg("info", "No grants returned.", None)
                        ELSE Msg("dataframe", "grants", None))
    /\ Finish
    /\ UNCHANGED <<users_df, listFailed>>
    /\ UNCHANGED contUnchanged
    /\ UNCHANGED sanVars

\* The script has run to its end, or an exception ended it: its locals and
\* what it rendered are gone when the next interaction runs it again.
ScriptEnd ==
    /\ pc = "done"
    /\ pc' = "idle" /\ op' = "none" /\ fn' = "" /\ stmt' = NoStmt
    /\ inp' = Input(<< >>, << >>, FALSE, "None", "", {})
    /\ conns' = << >> /\ calls' = << >>
    /\ exc' = None /\ escaping' = FALSE /\ ret' = None
    /\ rows' = {} /\ gdf' = {} /\ ui' = << >> /\ raised' = FALSE
    /\ users_df' = {} /\ listFailed' = FALSE
    /\ users0' = users /\ grants0' = grants
    /\ UNCHANGED <<users, grants, nruns>>
    /\ UNCHANGED sanVars

\* ------------------------------------------------------- specifications
Init ==
    /\ pc = "idle" /\ op = "none" /\ fn = "" /\ stmt = NoStmt
    /\ inp = Input(<< >>, << >>, FALSE, "None", "", {})
    /\ users = {RootPrincipal} /\ grants = {}
    /\ conns = << >> /\ calls = << >>
    /\ exc = None /\ escaping = FALSE /\ ret = None
    /\ rows = {} /\ gdf = {} /\ ui = << >> /\ raised = FALSE
    /\ users_df = {} /\ listFailed = FALSE
    /\ users0 = {RootPrincipal} /\ grants0 = {}
    /\ nruns = 0
    /\ sIn = << >> /\ sUser = << >> /\ sHost = << >> /\ sanPc = "off"

Next ==
    \/ ShowGrantsClick
    \/ CreateUserSubmit
    \/ UpdatePasswordClick
    \/ GrantRevokeClick
    \/ DropUserClick
    \/ GetConnection
    \/ Execute
    \/ Commit
    \/ Rollback
    \/ Close
    \/ CreateUserCont
    \/ SimpleCont
    \/ DropUserCont
    \/ ShowGrantsCont
    \/ ScriptEnd

Spec == Init /\ [][Next]_vars

SanitizerInit ==
    /\ SanInit
    /\ pc = "off" /\ op = "none" /\ fn = "" /\ stmt = NoStmt
    /\ inp = Input(<< >>, << >>, FALSE, "None", "", {})
    /\ users = {} /\ grants = {}
    /\ conns = << >> /\ calls = << >>
    /\ exc = None /\ escaping = FALSE /\ ret = None
    /\ rows = {} /\ gdf = {} /\ ui = << >> /\ raised = FALSE
    /\ users_df = {} /\ listFailed = FALSE
    /\ users0 = {} /\ grants0 = {}
    /\ nruns = 0

SanitizerNext ==
    \/ ApplySanitizeUser
    \/ ApplySanitizeHost

SanitizerSpec == SanitizerInit /\ [][SanitizerNext]_vars

\* ---------------------------------------------------------------- claims
Done == pc = "done"
CallIds == 1..Len(calls)
IsMutating(i) == calls[i].stmt.kind \in Mutating
IsFlush(i) == calls[i].stmt.kind = "FLUSH PRIVILEGES"
Committed(i) == calls[i].res = "committed"
Failed(i) == calls[i].res \in {"execute failed", "commit failed"}
Shown(level, text) == \E k \in 1..Len(ui) : ui[k].level = level /\ ui[k].text = text
ShownErr(level, text, e) ==
    \E k \in 1..Len(ui) : ui[k] = Msg(level, text, e)
CharsOf(s) == {s[k] : k \in 1..Len(s)}
NameAllowed == Lower \cup Upper \cup Digit \cup {"_"}
HostAllowed == NameAllowed \cup {"%", ".", ":", "-"}
MutatingOps == {"CreateUser", "ChangePassword", "GrantRevoke", "DropUser"}

RECURSIVE IsSubseq(_, _)
IsSubseq(a, b) ==
    IF a = << >> THEN TRUE
    ELSE IF b = << >> THEN FALSE
    ELSE IF Head(a) = Head(b) THEN IsSubseq(Tail(a), Tail(b))
    ELSE IsSubseq(a, Tail(b))

\* C1: every statement that reaches cursor.execute names its principal with
\* a user of [A-Za-z0-9_] characters only and a host of [A-Za-z0-9_%.:-]
\* characters only, on the Show Grants path as on the mutating paths.
C1_IdentifiersSanitized ==
    \A i \in CallIds :
        calls[i].sent =>
            /\ CharsOf(calls[i].stmt.user) \subseteq NameAllowed
            /\ CharsOf(calls[i].stmt.host) \subseteq HostAllowed

\* C2, as claimed: in a CreateUser call with a preset, once a statement has
\* raised a store error (with a message, in a call no exception aborted)
\* the store is as it was when the call began, the failure is shown with
\* the message of the store, and no later statement is sent.
C2_AllOrNothing ==
    (op = "CreateUser" /\ inp.preset # "None" /\ ~raised) =>
        \A i \in CallIds :
            (IsMutating(i) /\ Failed(i) /\ calls[i].returned /\ Truthy(calls[i].err)) =>
                /\ users = users0 /\ grants = grants0
                /\ calls[i].ret = calls[i].err
                /\ i = Len(calls)

\* C2, amended: each statement of a CreateUser call with a preset is a unit
\* of its own.  The store holds exactly what the committed statements of
\* the call did, so a statement that raised left nothing, and a CREATE USER
\* that committed stays when the preset GRANT fails.  exec_admin returns the
\* text of the error it caught, and when that text is not empty for the
\* CREATE USER or the GRANT, the failure is shown with it and no later
\* statement is sent.
C2_PerStatementUnits ==
    (op = "CreateUser" /\ inp.preset # "None") =>
        /\ users = users0 \cup {Principal(calls[i].stmt) :
                        i \in {j \in CallIds : Committed(j) /\ calls[j].stmt.kind = "CREATE USER"}}
        /\ grants = grants0 \cup UNION {{<<Principal(calls[i].stmt), t>> : t \in calls[i].stmt.privs} :
                        i \in {j \in CallIds : Committed(j) /\ calls[j].stmt.kind = "GRANT"}}
        /\ \A i \in CallIds :
            /\ (Failed(i) /\ calls[i].returned) => calls[i].ret = calls[i].err
            /\ (IsMutating(i) /\ calls[i].returned /\ Truthy(calls[i].ret)) =>
                /\ i = Len(calls)
                /\ pc \in {"return", "done"}
                /\ Done => ui[Len(ui)] = Msg("error", FailText(op, calls[i].stmt.kind), calls[i].ret)

C2_Witness ==
    /\ Done /\ op = "CreateUser" /\ inp.preset # "None" /\ Len(calls) = 2
    /\ Committed(1) /\ calls[2].res = "execute failed" /\ calls[2].ret = <<"denied">>
    /\ <<inp.u, inp.h>> \in users \ users0
    /\ grants = grants0

\* C3: when CREATE USER succeeded and the preset GRANT failed, in a call
\* that no exception aborted, the operator is told that the user was
\* created and that the grant failed, with the message of the store, is not
\* told that the preset was applied, and the user is in the catalog.
C3_PartialSuccessReported ==
    (/\ Done /\ ~raised /\ op = "CreateUser" /\ Len(calls) >= 2
     /\ Committed(1) /\ calls[2].stmt.kind = "GRANT" /\ Failed(2)) =>
        /\ Shown("success", "User created")
        /\ ShownErr("error", "Grant failed", calls[2].err)
        /\ ~Shown("success", "Preset applied")
        /\ <<inp.u, inp.h>> \in users

\* C4: a mutating call that ends in Success (every mutating statement it
\* sent was committed and the handler reported its success) sent exactly
\* one FLUSH PRIVILEGES, and sent it last, after its mutating statements.
Success ==
    /\ Done /\ ~raised /\ op \in MutatingOps
    /\ Shown("success", DoneText(op))
    /\ \A i \in CallIds : IsMutating(i) => Committed(i)

C4_OneFlushPerSuccess ==
    Success =>
        /\ Cardinality({i \in CallIds : IsFlush(i) /\ calls[i].sent}) = 1
        /\ Cardinality({i \in CallIds : IsFlush(i)}) = 1
        /\ IsFlush(Len(calls))
        /\ \E i \in CallIds : IsMutating(i)
        /\ \A i \in CallIds : IsMutating(i) => i < Len(calls)

C4_Witness ==
    /\ Success /\ op = "CreateUser" /\ inp.preset = "Read/Write" /\ Len(calls) = 3
    /\ calls[3].res = "committed"

\* C5, as claimed: in a call that no exception aborted, every mutating
\* statement that was committed is followed by a cache flush sent to the
\* store before the call ends.
C5_FlushAfterEveryCommit ==
    (Done /\ ~raised) =>
        \A i \in CallIds :
            (IsMutating(i) /\ Committed(i)) =>
                \E j \in CallIds : j > i /\ IsFlush(j) /\ calls[j].sent

\* C5, amended: the flush comes once, after the last mutating statement of
\* the call: a call that no exception aborted and in which exec_admin
\* returned no error text for any mutating statement ends with a flush sent
\* to the store; a CreateUser call in which CREATE USER was committed and
\* the preset GRANT returned an error text sends no flush at all.
C5_FlushAfterLastMutation ==
    /\ (/\ Done /\ ~raised /\ \E i \in CallIds : IsMutating(i)
        /\ \A i \in CallIds : IsMutating(i) => ~Truthy(calls[i].ret)) =>
            IsFlush(Len(calls)) /\ calls[Len(calls)].sent
    /\ (/\ op = "CreateUser" /\ Len(calls) >= 2 /\ Committed(1)
        /\ calls[2].stmt.kind = "GRANT" /\ calls[2].returned /\ Truthy(calls[2].ret)) =>
            /\ \A j \in CallIds : ~IsFlush(j)
            /\ pc \in {"return", "done"}

C5_Witness ==
    /\ Done /\ ~raised /\ op = "CreateUser" /\ Len(calls) = 2
    /\ Committed(1) /\ Failed(2) /\ Truthy(calls[2].ret)
    /\ <<inp.u, inp.h>> \in users

\* C6: no fault of the store or of the connection leaves exec_admin or
\* get_grants as an exception.
C6_NoFaultEscapes == ~raised

\* C7: every connection an executor call acquired is closed exactly once
\* before control leaves the call, whatever failed, and nothing is executed,
\* committed or rolled back on a closed connection or on the connection of
\* another call.
InCall(c) == pc \in {"execute", "commit", "rollback", "close"} /\ c = curConn

C7_ConnectionScoped ==
    /\ \A c \in 1..Len(conns) :
        /\ ~conns[c].misuse
        /\ conns[c].closes = (IF InCall(c) THEN 0 ELSE 1)
        /\ conns[c].open = InCall(c)
    /\ \A i \in CallIds : calls[i].conn # 0 =>
        /\ calls[i].conn \in 1..Len(conns)
        /\ conns[calls[i].conn].owner = i
        /\ \A j \in CallIds : calls[j].conn = calls[i].conn => j = i

C7_Witness ==
    /\ Done /\ raised /\ Len(conns) = 2
    /\ calls[1].res = "commit failed" /\ calls[1].returned
    /\ calls[2].res = "execute failed" /\ ~calls[2].returned
    /\ conns[1].closes = 1 /\ conns[2].closes = 1

\* C8: a call whose sanitized user or host is empty, or whose privilege set
\* is empty, is rejected before anything is built: it acquires no
\* connection and sends nothing.
C8_EmptyIdentifierRejected ==
    (/\ op \in MutatingOps
     /\ \/ inp.u = << >>
        \/ inp.h = << >>
        \/ (op = "GrantRevoke" /\ inp.privs = {})) =>
        conns = << >> /\ \A i \in CallIds : ~calls[i].sent

\* C9: at the end of a call that no exception aborted, every statement that
\* failed is shown as a failure with the message of the store, a failed
\* flush is not followed by the message of success, and a read that failed
\* did not return the frame that a read of zero rows returns.
C9_NoFailureSwallowed ==
    (Done /\ ~raised) =>
        /\ \A i \in CallIds : Failed(i) =>
            /\ \E k \in 1..Len(ui) :
                ui[k].level \in {"error", "warning"} /\ ui[k].err = calls[i].err
            /\ IsFlush(i) => ~Shown("success", DoneText(op))
            /\ calls[i].fn = "get_grants" => gdf # {}
        /\ listFailed => users_df # {}

\* C10: sanitize_user keeps only characters of [A-Za-z0-9_] and
\* sanitize_host only characters of [A-Za-z0-9_%.:-]; each result is a
\* subsequence of its input, in order, and may be empty.
C10_SanitizerFilters ==
    /\ sanPc \in {"user", "done"} =>
        /\ CharsOf(sUser) \subseteq NameAllowed
        /\ IsSubseq(sUser, sIn)
    /\ sanPc = "done" =>
        /\ CharsOf(sHost) \subseteq HostAllowed
        /\ IsSubseq(sHost, sIn)

C10_Witness ==
    /\ sanPc = "done" /\ sIn = <<"a", "'", "%">>
    /\ sUser = <<"a">> /\ sHost = <<"a", "%">>
====
